---- MODULE Spec2Model ----
(***************************************************************************)
(* Model of the two documentation checks of scripts/validation:            *)
(*   heading_hierarchy.py   - flags heading level jumps                    *)
(*   markdown_complexity.py - flags files whose complexity score is > 50   *)
(* Text is a sequence of one-character strings; a path is a sequence of    *)
(* names; the complexity score is kept in tenths (an integer), which is    *)
(* exact for the weights 1, 0.5, 2 and 0.3.                                *)
(***************************************************************************)
EXTENDS Integers, Sequences, FiniteSets, TLC

VARIABLES
    script,      \* which check runs: "hierarchy" or "complexity"
    fs,          \* the file tree: directory id -> [status, set of files]
    pc,          \* position of the main block: "walk", "done", "crashed"
    todo,        \* os.walk: directories still to be listed (pre-order stack)
    curRoot,     \* os.walk: path of the directory whose files are iterated
    curFiles,    \* files of the current directory not yet iterated
    cur,         \* path and text read of the open file, or None
    findings,    \* all_issues / high_complexity_files
    output,      \* lines printed on standard output
    exitStatus,  \* process exit status, None while running
    opened,      \* paths given to open(), in order
    analysed,    \* [path, text read] of every file whose analysis finished
    walkErrors,  \* directories whose listing failed inside os.walk
    yielded,     \* directory id -> the (dirs, files) os.walk yielded, or None
    runNo,       \* number of the current process run on the same tree
    firstRun,    \* output and exit status of the first run, None before
    arg,         \* argument of a function applied on its own
    ret          \* its result, None before the call

vars == <<script, fs, pc, todo, curRoot, curFiles, cur, findings, output,
          exitStatus, opened, analysed, walkErrors, yielded, runNo, firstRun, arg, ret>>

\* an optional value is the empty sequence or a one-element sequence
None == <<>>

Some(x) == <<x>>

\* ------------------------------------------------------------------------
\* Text helpers
\* ------------------------------------------------------------------------
NL == "\n"
HASH == "#"
\* the backtick character (U+0060), written by name
TICK == "BACKTICK"

RECURSIVE Rep(_, _)
Rep(s, n) == IF n = 0 THEN <<>> ELSE s \o Rep(s, n - 1)

Min(a, b) == IF a < b THEN a ELSE b

SetMax(S) == CHOOSE x \in S : \A y \in S : y <= x

SetMin(S) == CHOOSE x \in S : \A y \in S : x <= y

\* the characters \s of the re module matches in a str pattern, which are
\* those of str.isspace: U+0009-U+000D, U+001C-U+001F, U+0020, U+0085, U+00A0
\* written as themselves, and U+1680, U+2000-U+200A, U+2028, U+2029, U+202F,
\* U+205F, U+3000 written by name
AsciiSpaces == {" ", "\t", "\n", "\r", "\f", ""}

SeparatorControls == {"", "", "", ""}

Latin1Spaces == {"", " "}

UnicodeSpaces ==
    {"U+1680", "U+2000", "U+2001", "U+2002", "U+2003", "U+2004",
     "U+2005", "U+2006", "U+2007", "U+2008", "U+2009", "U+200A",
     "U+2028", "U+2029", "U+202F", "U+205F", "U+3000"}

IsSpace(c) ==
    c \in AsciiSpaces \cup SeparatorControls \cup Latin1Spaces \cup UnicodeSpaces

\* the text f.read() returns for the decoded text of a file opened in text
\* mode with the default newline=None: "\r\n" and a lone "\r" become "\n"
ReadText(raw) ==
    LET Keep(i) == ~(raw[i] = NL /\ i > 1 /\ raw[i - 1] = "\r")
        kept == SelectSeq([i \in 1..Len(raw) |-> <<Keep(i), raw[i]>>],
                          LAMBDA e : e[1])
    IN  [i \in 1..Len(kept) |-> IF kept[i][2] = "\r" THEN NL ELSE kept[i][2]]

\* ^ under re.MULTILINE: start of the text or just after a newline
IsLineStart(s, p) == p = 1 \/ s[p - 1] = NL

\* number of consecutive characters c starting at position p
RECURSIVE RunLen(_, _, _)
RunLen(s, p, c) ==
    IF p <= Len(s) /\ s[p] = c THEN 1 + RunLen(s, p + 1, c) ELSE 0

\* number of consecutive \s characters starting at position p
RECURSIVE SpaceRun(_, _)
SpaceRun(s, p) ==
    IF p <= Len(s) /\ IsSpace(s[p]) THEN 1 + SpaceRun(s, p + 1) ELSE 0

\* first position >= p that holds a newline, or Len(s)+1: where .* stops
RECURSIVE EndOfLine(_, _)
EndOfLine(s, p) ==
    IF p > Len(s) \/ s[p] = NL THEN p ELSE EndOfLine(s, p + 1)

\* str.endswith
EndsWith(s, suffix) ==
    /\ Len(s) >= Len(suffix)
    /\ SubSeq(s, Len(s) - Len(suffix) + 1, Len(s)) = suffix

\* ------------------------------------------------------------------------
\* heading_hierarchy.py: re.findall(r'^(#{1,6})\s+(.+)$', content, re.M)
\* ------------------------------------------------------------------------
\* \s+(.+)$ tried at position a: \s+ takes the whole whitespace run and gives
\* characters back until .+ finds a character that is not a newline
TitleStarts(s, a) ==
    {j \in (a + 1)..(a + SpaceRun(s, a)) : j <= Len(s) /\ s[j] # NL}

\* the numbers of # after which the rest of the pattern matches
HashCounts(s, p) ==
    {k \in 1..Min(RunLen(s, p, HASH), 6) : TitleStarts(s, p + k) # {}}

\* the match of the pattern at position p: its two groups and its end
HeadingMatch(s, p) ==
    LET k == SetMax(HashCounts(s, p))
        j == SetMax(TitleStarts(s, p + k))
        e == EndOfLine(s, j)
    IN  [groups |-> <<SubSeq(s, p, p + k - 1), SubSeq(s, j, e - 1)>>,
         end |-> e]

\* the matches found from position p on, left to right, never overlapping;
\* a position that is not a line start cannot match, so the scan resumes
\* at the next line start
RECURSIVE FindHeadings(_, _)
FindHeadings(s, p) ==
    IF p > Len(s) THEN <<>>
    ELSE IF IsLineStart(s, p) /\ HashCounts(s, p) # {}
         THEN LET m == HeadingMatch(s, p)
              IN  <<m.groups>> \o FindHeadings(s, m.end)
         ELSE FindHeadings(s, EndOfLine(s, p) + 1)

\* ------------------------------------------------------------------------
\* markdown_complexity.py: the four counts
\* ------------------------------------------------------------------------
\* len(re.findall(r'^#{1,6}', content, re.M))
RECURSIVE CountHeadings(_, _)
CountHeadings(s, p) ==
    IF p > Len(s) THEN 0
    ELSE IF IsLineStart(s, p) /\ s[p] = HASH
         THEN 1 + CountHeadings(s, p + Min(RunLen(s, p, HASH), 6))
         ELSE CountHeadings(s, EndOfLine(s, p) + 1)

\* \(.*?\) after the ] at position j, in a line that ends before e: the
\* positions of the ) that may close the match
LinkCloses(s, j, e) == {k \in (j + 2)..(e - 1) : s[k] = ")"}

\* \[.*?\]\( from the [ at position p: the positions of a ] that is followed
\* by ( and by a closing ) in the same line
LinkMids(s, p, e) ==
    {j \in (p + 1)..(e - 2) :
        s[j] = "]" /\ s[j + 1] = "(" /\ LinkCloses(s, j, e) # {}}

\* end of the match of \[.*?\]\(.*?\) at position p of a line that ends
\* before e, 0 when there is none: both .*? take as little as possible
LinkEnd(s, p, e) ==
    IF s[p] # "[" \/ LinkMids(s, p, e) = {} THEN 0
    ELSE SetMin(LinkCloses(s, SetMin(LinkMids(s, p, e)), e)) + 1

\* the matches that start in positions p..e-1 of one line
RECURSIVE LinksInLine(_, _, _)
LinksInLine(s, p, e) ==
    IF p >= e THEN 0
    ELSE IF LinkEnd(s, p, e) # 0 THEN 1 + LinksInLine(s, LinkEnd(s, p, e), e)
         ELSE LinksInLine(s, p + 1, e)

\* len(re.findall(r'\[.*?\]\(.*?\)', content)): no match holds a newline,
\* so the matches are those of the lines, line after line
RECURSIVE CountLinks(_, _)
CountLinks(s, p) ==
    IF p > Len(s) THEN 0
    ELSE LinksInLine(s, p, EndOfLine(s, p)) + CountLinks(s, EndOfLine(s, p) + 1)

\* len(re.findall(three backticks, content)): non-overlapping, left to right
RECURSIVE FencesInLine(_, _, _)
FencesInLine(s, p, e) ==
    IF p + 2 >= e THEN 0
    ELSE IF s[p] = TICK /\ s[p + 1] = TICK /\ s[p + 2] = TICK
         THEN 1 + FencesInLine(s, p + 3, e)
         ELSE FencesInLine(s, p + 1, e)

RECURSIVE CountFences(_, _)
CountFences(s, p) ==
    IF p > Len(s) THEN 0
    ELSE FencesInLine(s, p, EndOfLine(s, p)) + CountFences(s, EndOfLine(s, p) + 1)

\* end of the match of ^\s*[-*+]\s at line start p, 0 when there is none
ListEnd(s, p) ==
    LET q == p + SpaceRun(s, p)
    IN  IF q + 1 <= Len(s) /\ s[q] \in {"-", "*", "+"} /\ IsSpace(s[q + 1])
        THEN q + 2 ELSE 0

\* len(re.findall(r'^\s*[-*+]\s', content, re.M))
RECURSIVE CountLists(_, _)
CountLists(s, p) ==
    IF p > Len(s) THEN 0
    ELSE IF IsLineStart(s, p) /\ ListEnd(s, p) # 0
         THEN 1 + CountLists(s, ListEnd(s, p))
         ELSE CountLists(s, EndOfLine(s, p) + 1)

\* ------------------------------------------------------------------------
\* heading_hierarchy.py: check_heading_hierarchy
\* ------------------------------------------------------------------------
\* f"Heading level jump: H{prev_level} to H{level} - '{title}'"
IssueText(prev_level, level, title) ==
    <<"Heading level jump: H", prev_level, " to H", level, " - '", title, "'">>

\* variant: the previous level is not updated after a flagged heading
RECURSIVE HierarchyLoopStale(_, _, _, _)
HierarchyLoopStale(headings, i, prev_level, issues) ==
    IF i > Len(headings) THEN issues
    ELSE LET level == Len(headings[i][1])
             title == headings[i][2]
             jump == prev_level > 0 /\ level > prev_level + 1
         IN  HierarchyLoopStale(headings, i + 1,
                 IF jump THEN prev_level ELSE level,
                 IF jump
                 THEN Append(issues, IssueText(prev_level, level, title))
                 ELSE issues)

\* one pass of the for loop body over headings[i..]
RECURSIVE HierarchyLoop(_, _, _, _)
HierarchyLoop(headings, i, prev_level, issues) ==
    IF i > Len(headings) THEN issues
    ELSE LET level == Len(headings[i][1])
             title == headings[i][2]
         IN  HierarchyLoop(headings, i + 1, level,
                 IF prev_level > 0 /\ level > prev_level + 1
                 THEN Append(issues, IssueText(prev_level, level, title))
                 ELSE issues)

\* the loop with its initialisation: issues = [], prev_level = 0
HierarchyIssues(headings) == HierarchyLoop(headings, 1, 0, <<>>)

\* the body of the function on the text that was read: findall, then the loop
HierarchyOfText(content) == HierarchyIssues(FindHeadings(content, 1))

\* the function on the decoded text of the file: f.read(), then the body
check_heading_hierarchy(raw) == HierarchyOfText(ReadText(raw))

\* ------------------------------------------------------------------------
\* markdown_complexity.py: analyze_complexity
\* ------------------------------------------------------------------------
\* variant: an unpaired fence counts as a block
CodeBlocksCeil(fences) == (fences + 1) \div 2

\* code_blocks = len(re.findall(...)) // 2
CodeBlocks(fences) == fences \div 2

\* headings + (links * 0.5) + (code_blocks * 2) + (lists * 0.3), in tenths
Complexity(headings, links, code_blocks, lists) ==
    headings * 10 + links * 5 + (code_blocks * 2) * 10 + lists * 3

\* the threshold 50 of the main block, in tenths
Threshold == 500

\* variant: a score equal to the threshold is flagged too
IsHighComplexityInclusive(stats) == stats.complexity >= Threshold

\* stats['complexity'] > 50
IsHighComplexity(stats) == stats.complexity > Threshold

\* the record returned for given counts
Stats(headings, links, code_blocks, lists) ==
    [headings |-> headings, links |-> links, code_blocks |-> code_blocks,
     lists |-> lists,
     complexity |-> Complexity(headings, links, code_blocks, lists)]

\* the body of the function on the text that was read: the four counts and
\* the score
ComplexityOfText(content) ==
    Stats(CountHeadings(content, 1), CountLinks(content, 1),
          CodeBlocks(CountFences(content, 1)), CountLists(content, 1))

\* the function on the decoded text of the file: f.read(), then the body
analyze_complexity(raw) == ComplexityOfText(ReadText(raw))

\* f"{x:.1f}" of a score given in tenths: whole part, point, one decimal
Format1f(t) == <<t \div 10, ".", t % 10>>

\* ------------------------------------------------------------------------
\* The file tree given to a run
\* ------------------------------------------------------------------------
\* os.path.join(root, file)
JoinPath(root, file) == root \o <<"/">> \o file

MdSuffix == <<".", "m", "d">>

\* a line "#...# t" of the given level
Line(level, t) == Rep(<<HASH>>, level) \o <<" ", t, NL>>

\* a line "#...# t" of the given level, ended by the line ending eol
LineEol(level, t, eol) == Rep(<<HASH>>, level) \o <<" ", t>> \o eol

\* headings 1, 3, 5, a list item and a link, with the line endings "\r",
\* "\r\n" and "\n": two level jumps, score 3.8
DocJump ==
    LineEol(1, "a", <<"\r">>) \o LineEol(3, "b", <<"\r", NL>>) \o Line(5, "c")
        \o <<"-", " ", "x", "\r", NL, "[", "l", "]", "(", "u", ")", NL>>

\* a heading line with two links and two fences: 1 + 2*0.5 + 2 = 4.0
RichLine ==
    <<HASH, " ", "[", "a", "]", "(", "b", ")", "[", "c", "]", "(", "d", ")",
      TICK, TICK, TICK, TICK, TICK, TICK, NL>>

\* a list item with one link and two fences: 0.3 + 0.5 + 2 = 2.8
ItemLine ==
    <<"-", " ", "[", "a", "]", "(", "b", ")",
      TICK, TICK, TICK, TICK, TICK, TICK, NL>>

\* 12 headings, 25 links, 13 fence pairs, 1 list item: no jump, score 50.8
DocHeavy == Rep(RichLine, 12) \o ItemLine

\* 7 headings, 20 links, 15 fence pairs, 10 list items: no jump, score 50.0
DocFifty == Rep(RichLine, 5) \o Rep(ItemLine, 10) \o Rep(Line(1, "h"), 2)

\* level jumps and a score above the threshold
DocBoth == DocJump \o DocHeavy

\* a file: its name, whether its bytes are valid UTF-8, and the text its
\* bytes decode to, line endings as stored
File(name, utf8, content) == [name |-> name, utf8 |-> utf8, content |-> content]

\* the sets of files a directory may hold; a directory has entries, not an
\* order of entries
FileSets ==
    { {},
      {File(<<"a", ".", "m", "d">>, TRUE, DocJump),
       File(<<"e", ".", "m", "d">>, TRUE, DocBoth)},
      {File(<<"k", ".", "m", "d">>, TRUE, DocFifty)},
      {File(<<"x", ".", "m", "d", "x">>, TRUE, DocBoth),
       File(<<"c", ".", "m", "d">>, FALSE, <<>>)} }

\* directories: docs, docs/sub, docs/sub/deep, docs/zed
RootDir == 1

DirIds == {1, 2, 3, 4}

Children(d) == IF d = 1 THEN {2, 4} ELSE IF d = 2 THEN {3} ELSE {}

Parent(d) == IF d = 3 THEN 2 ELSE 1

DirPath(d) ==
    LET docs == <<"d", "o", "c", "s">>
        sub  == JoinPath(docs, <<"s", "u", "b">>)
    IN  IF d = 1 THEN docs
        ELSE IF d = 2 THEN sub
        ELSE IF d = 3 THEN JoinPath(sub, <<"d", "e", "e", "p">>)
        ELSE JoinPath(docs, <<"z", "e", "d">>)

Absent == [status |-> "absent", files |-> {}]

\* the directory whose listing may be refused: docs/sub
Restrictable == {2}

DirStates == {Absent} \cup [status : {"ok", "denied"}, files : FileSets]

Trees ==
    {t \in [DirIds -> DirStates] :
        /\ \A d \in DirIds \ {RootDir} :
               t[Parent(d)].status = "absent" => t[d] = Absent
        /\ \A d \in DirIds \ Restrictable : t[d].status # "denied"}

\* the subdirectories a listing of d shows
ListedDirs(t, d) == {c \in Children(d) : t[c].status # "absent"}

\* the orders in which a listing may give the entries S: os.walk takes them
\* as os.scandir gives them, which is in arbitrary order, and sorts nothing
Orders(S) ==
    {o \in [1..Cardinality(S) -> S] :
        \A i, j \in 1..Cardinality(S) : o[i] = o[j] => i = j}

\* nothing has been yielded yet
NoListing == [d \in DirIds |-> None]

\* ------------------------------------------------------------------------
\* The main block of either script
\* ------------------------------------------------------------------------
Scripts == {"hierarchy", "complexity"}

\* the state of a process that has just reached the main block
ProcessStart ==
    /\ pc = "walk"
    /\ todo = <<RootDir>>
    /\ curRoot = <<>>
    /\ curFiles = <<>>
    /\ cur = None
    /\ findings = <<>>
    /\ output = <<>>
    /\ exitStatus = None
    /\ opened = <<>>
    /\ analysed = <<>>
    /\ walkErrors = <<>>
    /\ yielded = NoListing

Init ==
    /\ script \in Scripts
    /\ fs \in Trees
    /\ ProcessStart
    /\ runNo = 1
    /\ firstRun = None
    /\ arg = None
    /\ ret = None

Walking == pc = "walk" /\ cur = None /\ curFiles = <<>> /\ todo # <<>>

\* os.walk lists the next directory and yields (root, dirs, files), both in
\* the order of the listing; its subdirectories are walked after the files,
\* before its siblings
WalkDir ==
    /\ Walking
    /\ fs[Head(todo)].status = "ok"
    /\ \E dirs \in Orders(ListedDirs(fs, Head(todo))),
          files \in Orders(fs[Head(todo)].files) :
          /\ curRoot' = DirPath(Head(todo))
          /\ curFiles' = files
          /\ todo' = dirs \o Tail(todo)
          /\ yielded' = [yielded EXCEPT
                            ![Head(todo)] = Some([dirs |-> dirs, files |-> files])]
    /\ UNCHANGED <<script, fs, pc, cur, findings, output, exitStatus, opened,
                   analysed, walkErrors, runNo, firstRun, arg, ret>>

\* the listing fails (missing root, no permission): os.walk is called
\* without onerror, so it drops the error and yields nothing for it
WalkError ==
    /\ Walking
    /\ fs[Head(todo)].status # "ok"
    /\ walkErrors' = Append(walkErrors, Head(todo))
    /\ todo' = Tail(todo)
    /\ UNCHANGED <<script, fs, pc, curRoot, curFiles, cur, findings, output,
                   exitStatus, opened, analysed, yielded, runNo, firstRun,
                   arg, ret>>

Iterating == pc = "walk" /\ cur = None /\ curFiles # <<>>

\* a file whose name does not end with .md
SkipFile ==
    /\ Iterating
    /\ ~EndsWith(Head(curFiles).name, MdSuffix)
    /\ curFiles' = Tail(curFiles)
    /\ UNCHANGED <<script, fs, pc, todo, curRoot, cur, findings, output,
                   exitStatus, opened, analysed, walkErrors, yielded, runNo, firstRun,
                   arg, ret>>

\* open(file_path, encoding='utf-8') and f.read() of the next .md file
OpenFile ==
    /\ Iterating
    /\ EndsWith(Head(curFiles).name, MdSuffix)
    /\ Head(curFiles).utf8
    /\ cur' = Some([path |-> JoinPath(curRoot, Head(curFiles).name),
                    content |-> ReadText(Head(curFiles).content)])
    /\ opened' = Append(opened, JoinPath(curRoot, Head(curFiles).name))
    /\ curFiles' = Tail(curFiles)
    /\ UNCHANGED <<script, fs, pc, todo, curRoot, findings, output,
                   exitStatus, analysed, walkErrors, yielded, runNo, firstRun, arg, ret>>

\* variant: the undecodable file is skipped and the walk goes on
DecodeErrorIgnored ==
    /\ Iterating
    /\ EndsWith(Head(curFiles).name, MdSuffix)
    /\ ~Head(curFiles).utf8
    /\ opened' = Append(opened, JoinPath(curRoot, Head(curFiles).name))
    /\ curFiles' = Tail(curFiles)
    /\ UNCHANGED <<script, fs, pc, todo, curRoot, cur, findings, output,
                   exitStatus, analysed, walkErrors, yielded, runNo, firstRun, arg, ret>>

\* f.read() raises UnicodeDecodeError; nothing catches it, the interpreter
\* prints the traceback on standard error and exits with status 1
DecodeError ==
    /\ Iterating
    /\ EndsWith(Head(curFiles).name, MdSuffix)
    /\ ~Head(curFiles).utf8
    /\ opened' = Append(opened, JoinPath(curRoot, Head(curFiles).name))
    /\ pc' = "crashed"
    /\ exitStatus' = Some(1)
    /\ UNCHANGED <<script, fs, todo, curRoot, curFiles, cur, findings, output,
                   analysed, walkErrors, yielded, runNo, firstRun, arg, ret>>

\* for issue in issues: all_issues.append(f"{file_path}: {issue}"), on the
\* text read from the file
HierarchyFindings(path, content) ==
    LET issues == HierarchyOfText(content)
    IN  [i \in 1..Len(issues) |-> <<path, ": ", issues[i]>>]

\* if stats['complexity'] > 50: high_complexity_files.append((file_path, stats)),
\* on the text read from the file
ComplexityFindings(path, content) ==
    LET stats == ComplexityOfText(content)
    IN  IF IsHighComplexity(stats) THEN << <<path, stats>> >> ELSE <<>>

\* the analysis of the file just read and the collection of its findings
AnalyzeFile ==
    /\ pc = "walk"
    /\ cur # None
    /\ findings' = findings \o
          (IF script = "hierarchy"
           THEN HierarchyFindings(cur[1].path, cur[1].content)
           ELSE ComplexityFindings(cur[1].path, cur[1].content))
    /\ analysed' = Append(analysed, cur[1])
    /\ cur' = None
    /\ UNCHANGED <<script, fs, pc, todo, curRoot, curFiles, output,
                   exitStatus, opened, walkErrors, yielded, runNo, firstRun, arg, ret>>

FailureHeader ==
    IF script = "hierarchy"
    THEN <<"FAILURE GLYPH", " Heading hierarchy issues found:">>
    ELSE <<"FAILURE GLYPH", " High complexity files detected:">>

SuccessLine ==
    IF script = "hierarchy"
    THEN <<"SUCCESS GLYPH", " All heading hierarchies are correct">>
    ELSE <<"SUCCESS GLYPH", " All files have reasonable complexity">>

\* print(f"  - {issue}") / print(f"  - {file_path}: complexity={...:.1f}")
ReportLine(finding) ==
    IF script = "hierarchy"
    THEN <<"  - ", finding>>
    ELSE <<"  - ", finding[1], ": complexity=", Format1f(finding[2].complexity)>>

WalkOver == pc = "walk" /\ cur = None /\ curFiles = <<>> /\ todo = <<>>

\* variant: the failure report ends with exit(0)
ReportFailureExitsZero ==
    /\ WalkOver
    /\ findings # <<>>
    /\ output' = <<FailureHeader>>
                    \o [i \in 1..Len(findings) |-> ReportLine(findings[i])]
    /\ exitStatus' = Some(0)
    /\ pc' = "done"
    /\ UNCHANGED <<script, fs, todo, curRoot, curFiles, cur, findings, opened,
                   analysed, walkErrors, yielded, runNo, firstRun, arg, ret>>

\* variant: only the first finding is printed
ReportFailureFirstOnly ==
    /\ WalkOver
    /\ findings # <<>>
    /\ output' = <<FailureHeader, ReportLine(findings[1])>>
    /\ exitStatus' = Some(1)
    /\ pc' = "done"
    /\ UNCHANGED <<script, fs, todo, curRoot, curFiles, cur, findings, opened,
                   analysed, walkErrors, yielded, runNo, firstRun, arg, ret>>

\* if all_issues: header, one line per finding, exit(1)
ReportFailure ==
    /\ WalkOver
    /\ findings # <<>>
    /\ output' = <<FailureHeader>>
                    \o [i \in 1..Len(findings) |-> ReportLine(findings[i])]
    /\ exitStatus' = Some(1)
    /\ pc' = "done"
    /\ UNCHANGED <<script, fs, todo, curRoot, curFiles, cur, findings, opened,
                   analysed, walkErrors, yielded, runNo, firstRun, arg, ret>>

\* else: the success line, exit(0)
ReportSuccess ==
    /\ WalkOver
    /\ findings = <<>>
    /\ output' = <<SuccessLine>>
    /\ exitStatus' = Some(0)
    /\ pc' = "done"
    /\ UNCHANGED <<script, fs, todo, curRoot, curFiles, cur, findings, opened,
                   analysed, walkErrors, yielded, runNo, firstRun, arg, ret>>

Next ==
    \/ WalkDir
    \/ WalkError
    \/ SkipFile
    \/ OpenFile
    \/ DecodeError
    \/ AnalyzeFile
    \/ ReportFailure
    \/ ReportSuccess

Spec == Init /\ [][Next]_vars

\* -- the same check started a second time on the same tree ---------------
Ended == pc \in {"done", "crashed"}

\* a new process reaches the main block: nothing of the first run is left
\* but the file tree
StartRun ==
    /\ Ended
    /\ runNo = 1
    /\ firstRun' = Some([output |-> output, exitStatus |-> exitStatus])
    /\ runNo' = 2
    /\ pc' = "walk"
    /\ todo' = <<RootDir>>
    /\ curRoot' = <<>>
    /\ curFiles' = <<>>
    /\ cur' = None
    /\ findings' = <<>>
    /\ output' = <<>>
    /\ exitStatus' = None
    /\ opened' = <<>>
    /\ analysed' = <<>>
    /\ walkErrors' = <<>>
    /\ yielded' = NoListing
    /\ UNCHANGED <<script, fs, arg, ret>>

NextTwice ==
    \/ WalkDir
    \/ WalkError
    \/ SkipFile
    \/ OpenFile
    \/ DecodeError
    \/ AnalyzeFile
    \/ ReportFailure
    \/ ReportSuccess
    \/ StartRun

SpecTwice == Init /\ [][NextTwice]_vars

\* ------------------------------------------------------------------------
\* The functions applied on their own to bounded inputs
\* ------------------------------------------------------------------------
procVars == <<script, fs, pc, todo, curRoot, curFiles, cur, findings, output,
              exitStatus, opened, analysed, walkErrors, yielded, runNo, firstRun>>

\* no process is running: only arg and ret are in use
Detached ==
    /\ script = "none"
    /\ fs = <<>>
    /\ pc = "function"
    /\ todo = <<>>
    /\ curRoot = <<>>
    /\ curFiles = <<>>
    /\ cur = None
    /\ findings = <<>>
    /\ output = <<>>
    /\ exitStatus = None
    /\ opened = <<>>
    /\ analysed = <<>>
    /\ walkErrors = <<>>
    /\ yielded = NoListing
    /\ runNo = 1
    /\ firstRun = None

\* all sequences of at most n elements of a set: the texts of at most n
\* characters over an alphabet
Texts(alphabet, n) == UNION {[1..k -> alphabet] : k \in 0..n}

\* -- check_heading_hierarchy on a given heading sequence -----------------
MaxHeadings == 4

MaxLevel == 6

\* the title given to the i-th heading: i characters
Title(i) == Rep(<<"t">>, i)

\* the findall result for headings of the given levels
HeadingsOf(levels) ==
    [i \in 1..Len(levels) |-> <<Rep(<<HASH>>, levels[i]), Title(i)>>]

LevelsOf(headings) == [i \in 1..Len(headings) |-> Len(headings[i][1])]

InitLevels ==
    /\ Detached
    /\ arg \in {HeadingsOf(levels) : levels \in Texts(1..MaxLevel, MaxHeadings)}
    /\ ret = None

CallCheckHierarchy ==
    /\ pc = "function"
    /\ ret = None
    /\ ret' = Some(HierarchyIssues(arg))
    /\ UNCHANGED <<procVars, arg>>

NextLevels == CallCheckHierarchy

SpecLevels == InitLevels /\ [][NextLevels]_vars

\* -- the heading pattern on a given text, as read -------------------------
MaxText == 6

\* #, space, newline, a letter and the vertical tab U+000B
HeadingAlphabet == {HASH, " ", NL, "x", ""}

InitParse ==
    /\ Detached
    /\ arg \in Texts(HeadingAlphabet, MaxText)
    /\ ret = None

CallFindall ==
    /\ pc = "function"
    /\ ret = None
    /\ ret' = Some(FindHeadings(arg, 1))
    /\ UNCHANGED <<procVars, arg>>

NextParse == CallFindall

SpecParse == InitParse /\ [][NextParse]_vars

\* -- analyze_complexity on the decoded text of a file --------------------
MaxFencePieces == 6

\* a backtick, a fence, a letter and the line endings "\n" and "\r"
FencePieces == {<<TICK>>, <<TICK, TICK, TICK>>, <<"x">>, <<NL>>, <<"\r">>}

\* the pieces of a sequence joined into one text
RECURSIVE Join(_)
Join(pieces) == IF pieces = <<>> THEN <<>> ELSE Head(pieces) \o Join(Tail(pieces))

\* all texts made of at most n pieces
PieceTexts(pieces, n) == {Join(t) : t \in Texts(pieces, n)}

InitAnalyze ==
    /\ Detached
    /\ arg \in PieceTexts(FencePieces, MaxFencePieces)
    /\ ret = None

CallAnalyze ==
    /\ pc = "function"
    /\ ret = None
    /\ ret' = Some(analyze_complexity(arg))
    /\ UNCHANGED <<procVars, arg>>

NextAnalyze == CallAnalyze

SpecAnalyze == InitAnalyze /\ [][NextAnalyze]_vars

\* -- the score and the threshold test on given counts --------------------
MaxHeadingCount == 60

MaxLinkCount == 4

MaxBlockCount == 3

MaxListCount == 10

InitScore ==
    /\ Detached
    /\ arg \in [headings : 0..MaxHeadingCount, links : 0..MaxLinkCount,
                code_blocks : 0..MaxBlockCount, lists : 0..MaxListCount]
    /\ ret = None

CallScore ==
    /\ pc = "function"
    /\ ret = None
    /\ LET stats == Stats(arg.headings, arg.links, arg.code_blocks, arg.lists)
       IN  ret' = Some([stats |-> stats, flagged |-> IsHighComplexity(stats)])
    /\ UNCHANGED <<procVars, arg>>

NextScore == CallScore

SpecScore == InitScore /\ [][NextScore]_vars

\* ------------------------------------------------------------------------
\* Properties of the functions
\* ------------------------------------------------------------------------
\* the k-th smallest element of a set of numbers
Kth(S, k) == CHOOSE i \in S : Cardinality({j \in S : j < i}) = k - 1

\* positions of the headings that are more than one level below their
\* predecessor
JumpIndexes(levels) ==
    {i \in 2..Len(levels) : levels[i] > levels[i - 1] + 1}

\* the issues the claim expects for a heading sequence
ExpectedIssues(headings) ==
    LET levels == LevelsOf(headings)
        J == JumpIndexes(levels)
    IN  [k \in 1..Cardinality(J) |->
            IssueText(levels[Kth(J, k) - 1], levels[Kth(J, k)],
                      headings[Kth(J, k)][2])]

\* C1: check_heading_hierarchy returns, in document order, exactly one issue
\* for each heading that is not the first and whose level exceeds the level
\* of the heading just before it by more than 1, naming both levels and the
\* title; the first heading is never flagged; [1,3,5] gives two issues and
\* [2,4,4,1] gives one.
C1_IssuesAreTheJumps ==
    ret # None =>
        /\ ret[1] = ExpectedIssues(arg)
        /\ (LevelsOf(arg) = <<1, 3, 5>> => Len(ret[1]) = 2)
        /\ (LevelsOf(arg) = <<2, 4, 4, 1>> => Len(ret[1]) = 1)
        /\ \A k \in 1..Len(ret[1]) : ret[1][k][6] # arg[1][2]

C1_Witness ==
    /\ ret # None
    /\ LevelsOf(arg) = <<1, 3, 5>>
    /\ ret[1] = <<IssueText(1, 3, Title(2)), IssueText(3, 5, Title(3))>>

\* C4: a file is flagged exactly when 10*headings + 5*links +
\* 20*code_block_pairs + 3*list_items > 500; a score of exactly 50 is not
\* flagged, 60 headings alone are flagged, 10 headings alone are not.
C4_FlaggedIffAboveFifty ==
    ret # None =>
        LET tenths == 10 * arg.headings + 5 * arg.links
                          + 20 * arg.code_blocks + 3 * arg.lists
        IN  /\ ret[1].flagged <=> tenths > 500
            /\ tenths = 500 => ~ret[1].flagged
            /\ (arg.headings = 60 /\ tenths = 600) => ret[1].flagged
            /\ (arg.headings = 10 /\ tenths = 100) => ~ret[1].flagged

C4_Witness ==
    /\ ret # None
    /\ arg.headings = 45 /\ arg.links = 0 /\ arg.code_blocks = 1
    /\ arg.lists = 10
    /\ ret[1].stats.complexity = 500
    /\ ~ret[1].flagged

\* the starts of the maximal runs of backticks
TickRunStarts(s) ==
    {p \in 1..Len(s) : s[p] = TICK /\ (p = 1 \/ s[p - 1] # TICK)}

\* the triple backticks held by the runs that start in S: a run of n
\* backticks holds n \div 3 of them
RECURSIVE TriplesIn(_, _)
TriplesIn(s, S) ==
    IF S = {} THEN 0
    ELSE LET p == CHOOSE q \in S : TRUE
         IN  RunLen(s, p, TICK) \div 3 + TriplesIn(s, S \ {p})

\* the number of triple backticks in a text
FenceOccurrences(s) == TriplesIn(s, TickRunStarts(s))

\* C5: the code-block-pair count equals the number of triple-backtick
\* occurrences divided by two, rounded down (2k+1 fences yield k: 3 yield 1,
\* 1 yields 0), and each pair adds 2 to the score.
C5_PairsAreHalfTheFences ==
    ret # None =>
        LET n == FenceOccurrences(arg)
        IN  /\ 2 * ret[1].code_blocks <= n
            /\ n <= 2 * ret[1].code_blocks + 1
            /\ ret[1].complexity =
                   10 * ret[1].headings + 5 * ret[1].links
                       + 3 * ret[1].lists + 20 * ret[1].code_blocks

C5_Witness ==
    /\ ret # None
    /\ FenceOccurrences(arg) = 3
    /\ ret[1].code_blocks = 1
    /\ ret[1].complexity = 20

\* the lines of a text, without their newlines
RECURSIVE SplitLines(_, _)
SplitLines(s, p) ==
    IF p > Len(s) THEN <<>>
    ELSE <<SubSeq(s, p, EndOfLine(s, p) - 1)>>
             \o SplitLines(s, EndOfLine(s, p) + 1)

\* a line of 1-6 #, then whitespace, then text
IsHeadingLine(line) ==
    LET k == RunLen(line, 1, HASH)
        w == SpaceRun(line, k + 1)
    IN  k \in 1..6 /\ w >= 1 /\ k + w < Len(line)

HeadingOfLine(line) ==
    LET k == RunLen(line, 1, HASH)
        w == SpaceRun(line, k + 1)
    IN  <<SubSeq(line, 1, k), SubSeq(line, k + w + 1, Len(line))>>

RECURSIVE HeadingsOfLines(_, _)
HeadingsOfLines(lines, i) ==
    IF i > Len(lines) THEN <<>>
    ELSE (IF IsHeadingLine(lines[i]) THEN <<HeadingOfLine(lines[i])>>
          ELSE <<>>) \o HeadingsOfLines(lines, i + 1)

\* C9: the extracted heading sequence holds, in document order, exactly one
\* record for each line made of 1-6 #, whitespace and text, with the level
\* of that line and the text of that same line; any other line yields no
\* record and changes no other record.
C9_OneRecordPerHeadingLine ==
    ret # None => ret[1] = HeadingsOfLines(SplitLines(arg, 1), 1)

\* ------------------------------------------------------------------------
\* Properties of a run
\* ------------------------------------------------------------------------
\* the findings of a sequence of analysed files, file after file
RECURSIVE FindingsOf(_, _)
FindingsOf(files, i) ==
    IF i > Len(files) THEN <<>>
    ELSE (IF script = "hierarchy"
          THEN HierarchyFindings(files[i].path, files[i].content)
          ELSE ComplexityFindings(files[i].path, files[i].content))
         \o FindingsOf(files, i + 1)

\* the record an analysed file leaves: the joined path and the text as read
Analysed(d, f) ==
    [path |-> JoinPath(DirPath(d), f.name), content |-> ReadText(f.content)]

\* the files of a yielded listing whose name ends with .md, in its order
RECURSIVE MdFiles(_, _, _)
MdFiles(d, files, i) ==
    IF i > Len(files) THEN <<>>
    ELSE (IF EndsWith(files[i].name, MdSuffix)
          THEN <<Analysed(d, files[i])>>
          ELSE <<>>) \o MdFiles(d, files, i + 1)

\* the .md files of the directories ds in the order of the walk this run
\* made: the files of a directory as yielded, then its subdirectories as
\* yielded, then its siblings; a directory that yielded nothing adds nothing
RECURSIVE FilesWalked(_)
FilesWalked(ds) ==
    IF ds = <<>> THEN <<>>
    ELSE (IF yielded[Head(ds)] = None THEN <<>>
          ELSE MdFiles(Head(ds), yielded[Head(ds)][1].files, 1)
                   \o FilesWalked(yielded[Head(ds)][1].dirs))
         \o FilesWalked(Tail(ds))

\* the directories the walk can list: docs and every directory below a
\* listable one, when they exist and permit it
Listable(d) ==
    /\ fs[d].status = "ok"
    /\ d # RootDir => fs[Parent(d)].status = "ok"
    /\ d = 3 => fs[RootDir].status = "ok"

\* what was yielded for d is the content of d in the tree: every entry once
YieldedIsListing(d) ==
    LET y == yielded[d][1]
    IN  /\ {y.files[i] : i \in 1..Len(y.files)} = fs[d].files
        /\ Len(y.files) = Cardinality(fs[d].files)
        /\ {y.dirs[i] : i \in 1..Len(y.dirs)} = ListedDirs(fs, d)
        /\ Len(y.dirs) = Cardinality(ListedDirs(fs, d))

\* the .md files of all directories of the tree, listable or not
AllMdFiles ==
    UNION {{Analysed(d, f) : f \in {g \in fs[d].files : EndsWith(g.name, MdSuffix)}} :
           d \in DirIds}

Range(f) == {f[i] : i \in DOMAIN f}

\* C2 as stated: every run that ends has status 0 exactly when no finding
\* was made and status 1 exactly when at least one was made.
C2_StatusTellsFindings ==
    exitStatus # None =>
        /\ exitStatus = Some(0) <=> findings = <<>>
        /\ exitStatus = Some(1) <=> findings # <<>>

\* C2 amended: a run that completes has status 0 exactly when it made no
\* finding and status 1 exactly when it made at least one; a run that is
\* ended by an uncaught error has status 1 whatever it had found; no run
\* ends with status 0 while a finding exists.
C2_StatusOfCompletedRun ==
    /\ pc = "done" =>
          /\ exitStatus = Some(0) <=> findings = <<>>
          /\ exitStatus = Some(1) <=> findings # <<>>
    /\ pc = "crashed" => exitStatus = Some(1)
    /\ pc = "walk" => exitStatus = None
    /\ exitStatus = Some(0) => findings = <<>>

C2_Witness ==
    /\ pc = "done"
    /\ exitStatus = Some(1)
    /\ Len(findings) >= 2

\* the report lines the claim expects for the findings of the analysed files
ExpectedLines ==
    LET F == FindingsOf(analysed, 1)
    IN  [i \in 1..Len(F) |->
            IF script = "hierarchy"
            THEN <<"  - ", F[i]>>
            ELSE <<"  - ", F[i][1], ": complexity=",
                   Format1f(F[i][2].complexity)>>]

\* C3: a completed run has printed either the failure header followed by
\* exactly one line per finding, each starting with the path of its file, in
\* file walk order and document order, or the success line alone when there
\* is no finding; never both; nothing is printed before the walk is over.
C3_ReportListsEveryFinding ==
    /\ pc = "walk" => output = <<>>
    /\ pc = "done" =>
          /\ \A d \in DirIds :
                 /\ yielded[d] # None <=> Listable(d)
                 /\ yielded[d] # None => YieldedIsListing(d)
          /\ analysed = FilesWalked(<<RootDir>>)
          /\ output = (IF ExpectedLines = <<>> THEN <<SuccessLine>>
                       ELSE <<FailureHeader>> \o ExpectedLines)
          /\ ~(FailureHeader \in Range(output) /\ SuccessLine \in Range(output))

C3_Witness ==
    /\ pc = "done"
    /\ Len(output) >= 3
    /\ output[1] = FailureHeader
    /\ \E i, j \in 1..Len(analysed) :
          /\ i < j
          /\ FindingsOf(<<analysed[i]>>, 1) # <<>>
          /\ FindingsOf(<<analysed[j]>>, 1) # <<>>

\* C6: a run in which the listing of a directory failed (docs missing, or a
\* directory without permission) never prints the success line and never
\* exits with status 0.
C6_WalkErrorEndsTheRun ==
    walkErrors # <<>> =>
        /\ SuccessLine \notin Range(output)
        /\ exitStatus # Some(0)

\* C7: in a completed run the files analysed are exactly the files under
\* docs, at any depth, whose name ends with .md, each analysed once, and no
\* other file is opened.
C7_EveryMdFileAnalysedOnce ==
    pc = "done" =>
        /\ Range(analysed) = AllMdFiles
        /\ Len(analysed) = Cardinality(AllMdFiles)
        /\ Range(opened) = {f.path : f \in AllMdFiles}

\* the paths of the .md files that are not valid UTF-8
Undecodable ==
    UNION {{JoinPath(DirPath(d), f.name) :
               f \in {g \in fs[d].files :
                          EndsWith(g.name, MdSuffix) /\ ~g.utf8}} :
           d \in DirIds}

\* C10: once an undecodable .md file is opened the run is over: it is the
\* last file opened, nothing has been and nothing will be printed, whatever
\* was collected before; at most one file is open and not yet analysed.
C10_DecodeErrorEndsTheRun ==
    /\ [](/\ (Range(opened) \cap Undecodable # {}) =>
                /\ pc = "crashed"
                /\ opened[Len(opened)] \in Undecodable
                /\ output = <<>>
                /\ exitStatus = Some(1)
          /\ pc = "crashed" => Range(opened) \cap Undecodable # {}
          /\ Len(opened) = Len(analysed) + (IF cur # None \/ pc = "crashed"
                                            THEN 1 ELSE 0))
    /\ [][pc # "crashed"]_vars

C10_Witness ==
    /\ pc = "crashed"
    /\ findings # <<>>
C8_SecondRunRepeatsTheFirst ==
    /\ []((runNo = 2 /\ Ended) =>
             /\ output = firstRun[1].output
             /\ exitStatus = firstRun[1].exitStatus)
    /\ [][fs' = fs]_vars

====
